---- MODULE Spec2Model ----
(***************************************************************************)
(* The live quiz session engine of backend/main.py: one quiz session, its  *)
(* participants and their answers, driven by the HTTP handlers             *)
(* /livequiz/{code}/start, next, end-question, end-session, join, answer.  *)
(*                                                                         *)
(* Spec      every handler runs to completion before the next one starts   *)
(*           (sequential requests).                                        *)
(* SpecConc  join and answer requests overlap: a handler is a sequence of  *)
(*           steps, one per database round trip that ends in a commit or   *)
(*           that reads committed rows.                                    *)
(* SpecAdvance  next requests overlap.                                     *)
(* SpecTimer    the teacher's calls and the question timer.                *)
(* SpecCreate   create calls, one at a time, beside an existing session.   *)
(* SpecResults  joins and answers on a started quiz, and its results.      *)
(* SpecAnswerAdvance  answer requests overlapping with next calls.         *)
(*                                                                         *)
(* Optional values (Python None) are <<>>; a present value x is <<x>>.     *)
(* Timestamps are integers counting clock ticks, TicksPerSecond per second.*)
(***************************************************************************)
EXTENDS Integers, Sequences, FiniteSets, TLC

VARIABLES
    session,        \* the row of livequiz_sessions
    participants,   \* livequiz_participants, in id order (id = position)
    answers,        \* livequiz_answers, in id order (id = position)
    now,            \* datetime.utcnow(), in ticks
    reqs,           \* the requests in flight (SpecConc, SpecAdvance, SpecCreate)
    created         \* the rows create calls added to livequiz_sessions
                    \* beside session, in id order (SpecCreate only)

vars == <<session, participants, answers, now, reqs, created>>

----------------------------------------------------------------------------
(* Bounds of the model *)

MaxQuestions == 2
MaxParticipants == 2
MaxAnswers == 2
MaxTime == 1
TicksPerSecond == 2
NumRequests == 2
AdvanceQuestions == 3
TimerMaxTime == 4
CreateQuestions == 2

----------------------------------------------------------------------------
(* Values *)

None == <<>>
Some(x) == <<x>>

Max(a, b) == IF a >= b THEN a ELSE b

\* Python's int() of a float: truncation toward zero, here of n / d with d > 0.
TruncDiv(n, d) == IF n >= 0 THEN n \div d ELSE -((-n) \div d)

\* str.strip() on the strings the requests carry.
Strip(s) ==
    CASE s = " p1 " -> "p1"
      [] s = " q2 " -> "q2"
      [] s = " b "  -> "b"
      [] s = " Ann " -> "Ann"
      [] s = " "    -> ""
      [] OTHER      -> s

\* str.upper() on the strings the requests carry as a choice.
Upper(s) ==
    CASE s = "a" -> "A"
      [] s = "b" -> "B"
      [] s = "c" -> "C"
      [] s = "d" -> "D"
      [] s = "e" -> "E"
      [] OTHER   -> s

\* The labels of the choices.
Labels == {"A", "B", "C", "D"}

\* (x or "") for an Optional[str]
OrEmpty(o) == IF o = None THEN "" ELSE o[1]

QId(i) == CASE i = 1 -> "q1" [] i = 2 -> "q2" [] i = 3 -> "q3" [] OTHER -> "q4"

\* The cleaned question objects livequiz_create persists (id and correct label).
Question(i) ==
    [id |-> QId(i), correct |-> IF i % 2 = 1 THEN Some("A") ELSE None]

QuestionList(n) == [i \in 1..n |-> Question(i)]

\* What the requests may carry. A request with a code that names no session
\* is answered before its payload is read, so one payload stands for all.
SessionCode == "ABC234"
NoSuchCode == "ZZZZZZ"
CodeInputs == {SessionCode, NoSuchCode}
UuidPool == {"u1"}
KidNames == {"Sunny Panda"}
\* <<code, anon_id, name>>
JoinInputs ==
    { <<SessionCode, None, None>>,
      <<SessionCode, Some(" p1 "), Some(" Ann ")>>,
      <<SessionCode, Some(" p1 "), None>>,
      <<SessionCode, Some(" "), Some("")>>,
      <<NoSuchCode, Some(" p1 "), Some(" Ann ")>> }
AnswerAnonInputs == {" p1 ", "u1"}
QidInputs == {"q1", " q2 "}
ChoiceInputs == {"A", " b "}
\* <<code, anon_id, question_id, choice>>: the well-formed requests, one
\* request for each way of being rejected, and one request for a question id
\* that no question of the session has.
AnswerInputs ==
    ({SessionCode} \X AnswerAnonInputs \X QidInputs \X ChoiceInputs)
        \cup { <<NoSuchCode, " p1 ", "q1", "A">>,
               <<SessionCode, " ", "q1", "A">>,
               <<SessionCode, " p1 ", "q1", "E">>,
               <<SessionCode, " p1 ", "", "A">>,
               <<SessionCode, "", " ", "e">>,
               <<SessionCode, " p1 ", "zz", "A">> }
SecondsInputs == {None, Some(0), Some(1)}
\* seconds_per_question is an Optional[int] that livequiz_create does not
\* range-check.
BudgetInputs == {None, Some(0), Some(1), Some(2), Some(-1)}

----------------------------------------------------------------------------
(* Helpers of main.py *)

_load_questions(s) == s.questions

_time_left_seconds(s, t) ==
    IF s.state # "live" THEN None
    ELSE IF s.seconds_per_question = None \/ s.seconds_per_question[1] = 0 THEN None
    ELSE IF s.question_started_at = None THEN None
    ELSE LET elapsed == t - s.question_started_at[1]
             left == TruncDiv(s.seconds_per_question[1] * TicksPerSecond - elapsed,
                              TicksPerSecond)
         IN  Some(Max(0, left))

_current_question(s) ==
    LET qs == _load_questions(s)
        idx == s.current_index
    IN  IF idx < 0 \/ idx >= Len(qs) THEN None ELSE Some(qs[idx + 1])

\* db.query(LiveQuizParticipantModel).filter(anon_id == a).first(): the id of
\* the first matching row in rowid order, 0 when there is none.
FindParticipant(ps, a) ==
    IF \E i \in 1..Len(ps) : ps[i].anon_id = a
    THEN CHOOSE i \in 1..Len(ps) :
            /\ ps[i].anon_id = a
            /\ \A j \in 1..(i - 1) : ps[j].anon_id # a
    ELSE 0

\* FindAnswer finding no row.
FindAnswer_Never(as, p, q) == 0

\* db.query(LiveQuizAnswerModel).filter(participant_id == p, question_id == q).first()
FindAnswer(as, p, q) ==
    IF \E i \in 1..Len(as) : as[i].participant_id = p /\ as[i].question_id = q
    THEN CHOOSE i \in 1..Len(as) :
            /\ as[i].participant_id = p /\ as[i].question_id = q
            /\ \A j \in 1..(i - 1) :
                  ~(as[j].participant_id = p /\ as[j].question_id = q)
    ELSE 0

\* .filter(question_id == q).count()
CountAnswers(as, q) == Cardinality({i \in 1..Len(as) : as[i].question_id = q})

----------------------------------------------------------------------------
(* The session transitions *)

\* StartSession without the stamp of the question's start.
StartSession_NoQuestionStamp(s, t) ==
    [s EXCEPT !.state = "live",
              !.started_at = Some(t),
              !.current_index = 0]

\* StartSession putting the questions in reverse order.
StartSession_Reorders(s, t) ==
    [s EXCEPT !.state = "live",
              !.started_at = Some(t),
              !.current_index = 0,
              !.question_started_at = Some(t),
              !.questions = [i \in DOMAIN s.questions |->
                                s.questions[Len(s.questions) + 1 - i]]]

StartSession(s, t) ==
    [s EXCEPT !.state = "live",
              !.started_at = Some(t),
              !.current_index = 0,
              !.question_started_at = Some(t)]

\* NextEnds ending the quiz one question early.
NextEnds_OneEarly(s) == s.current_index + 2 >= Len(_load_questions(s))

\* NextEnds ending the quiz one question late.
NextEnds_OneLate(s) == s.current_index + 1 > Len(_load_questions(s))

NextEnds(s) == s.current_index + 1 >= Len(_load_questions(s))

\* NextSession stepping the index past the last question when it ends the quiz.
NextSession_PastEnd(s, t) ==
    IF NextEnds(s)
    THEN [s EXCEPT !.state = "ended", !.ended_at = Some(t),
                   !.current_index = s.current_index + 1]
    ELSE [s EXCEPT !.current_index = s.current_index + 1,
                   !.question_started_at = Some(t)]

\* NextSession leaving the question timer running on.
NextSession_KeepsTimer(s, t) ==
    IF NextEnds(s)
    THEN [s EXCEPT !.state = "ended", !.ended_at = Some(t)]
    ELSE [s EXCEPT !.current_index = s.current_index + 1]

NextSession(s, t) ==
    IF NextEnds(s)
    THEN [s EXCEPT !.state = "ended", !.ended_at = Some(t)]
    ELSE [s EXCEPT !.current_index = s.current_index + 1,
                   !.question_started_at = Some(t)]

\* ExpireTimer without the budget taken off: the timer restarts instead.
ExpireTimer_NoBackdate(s, t) == [s EXCEPT !.question_started_at = Some(t)]

\* question_started_at = utcnow() - timedelta(seconds=int(seconds_per_question))
ExpireTimer(s, t) ==
    [s EXCEPT !.question_started_at =
                 Some(t - s.seconds_per_question[1] * TicksPerSecond)]

Truthy(o) == o # None /\ o[1] # 0

\* EndQuestionSession starting the question's budget afresh.
EndQuestionSession_Restarts(s, t) ==
    [s EXCEPT !.question_started_at = Some(t)]

\* EndQuestionSession moving the start of the question back by half the budget.
EndQuestionSession_HalfBudget(s, t) ==
    IF Truthy(s.seconds_per_question)
    THEN [s EXCEPT !.question_started_at = Some(t - s.seconds_per_question[1])]
    ELSE s

EndQuestionSession(s, t) ==
    IF Truthy(s.seconds_per_question) THEN ExpireTimer(s, t) ELSE s

\* EndSession putting the index back to its value in the lobby.
EndSession_ResetsIndex(s, t) ==
    [s EXCEPT !.state = "ended", !.ended_at = Some(t), !.current_index = -1]

EndSession(s, t) == [s EXCEPT !.state = "ended", !.ended_at = Some(t)]

\* The condition of the auto-end check after a recorded answer for qid.
AutoEndDue(s, ps, as, qid) ==
    /\ s.auto_end_when_all_answered
    /\ s.state = "live"
    /\ Len(ps) > 0
    /\ CountAnswers(as, qid) >= Len(ps)
    /\ Truthy(s.seconds_per_question)

\* AutoEndSession moving on to the next question instead of expiring the timer.
AutoEndSession_Advances(s, ps, as, qid, t) ==
    IF AutoEndDue(s, ps, as, qid) THEN NextSession(s, t) ELSE s

AutoEndSession(s, ps, as, qid, t) ==
    IF AutoEndDue(s, ps, as, qid) THEN ExpireTimer(s, t) ELSE s

----------------------------------------------------------------------------
(* Participants and answers *)

\* NewNickname storing the name in an anonymous session as well.
NewNickname_IgnoresAnonymous(s, name, kid) ==
    IF Strip(OrEmpty(name)) # "" THEN Some(Strip(OrEmpty(name))) ELSE Some(kid)

\* The nickname a new participant gets; kid is what _kid_name() drew.
NewNickname(s, name, kid) ==
    LET provided == Strip(OrEmpty(name))
    IN  IF s.anonymous THEN None
        ELSE IF provided # "" THEN Some(provided) ELSE Some(kid)

InsertParticipant(ps, a, nick) == Append(ps, [anon_id |-> a, nickname |-> nick])

UpdateAnswer(as, e, choice, t) ==
    [as EXCEPT ![e].choice = choice, ![e].answered_at = t]

InsertAnswer(as, p, qid, choice, t) ==
    Append(as, [participant_id |-> p, question_id |-> qid,
                choice |-> choice, answered_at |-> t])

\* UpsertAnswer without the update branch: every submission is a new row.
UpsertAnswer_AlwaysInsert(as, e, p, qid, choice, t) ==
    InsertAnswer(as, p, qid, choice, t)

\* The upsert of livequiz_answer, given the row id the lookup found (0: none).
UpsertAnswer(as, e, p, qid, choice, t) ==
    IF e # 0 THEN UpdateAnswer(as, e, choice, t)
    ELSE InsertAnswer(as, p, qid, choice, t)

----------------------------------------------------------------------------
(* The handlers, sequential: each runs to completion *)

Idle == [pc |-> "idle"]

\* The row livequiz_create stores.
SessionRow(code, anon, auto, secs, questions) ==
    [session_code |-> code,
     anonymous |-> anon,
     questions |-> questions,
     state |-> "lobby",
     current_index |-> -1,
     seconds_per_question |-> IF Truthy(secs) THEN secs ELSE None,
     auto_end_when_all_answered |-> auto,
     started_at |-> None,
     question_started_at |-> None,
     ended_at |-> None]

\* The row of the session the handlers are called on, a quiz of n questions.
CreateSession(anon, auto, secs, n) ==
    SessionRow(SessionCode, anon, auto, secs, QuestionList(n))

Init ==
    /\ \E anon \in BOOLEAN, auto \in BOOLEAN, secs \in SecondsInputs :
          session = CreateSession(anon, auto, secs, MaxQuestions)
    /\ participants = <<>>
    /\ answers = <<>>
    /\ now = 0
    /\ reqs = [r \in 1..NumRequests |-> Idle]
    /\ created = <<>>

\* Time passes between two steps, up to a limit.
PassTime(limit) ==
    /\ now < limit
    /\ now' = now + 1
    /\ UNCHANGED <<session, participants, answers, reqs, created>>

Tick == PassTime(MaxTime)

\* The response of livequiz_start: <<status, message>>.
StartResponse(s, code) ==
    IF code # s.session_code THEN <<404, "Session not found">>
    ELSE IF Len(_load_questions(s)) = 0 THEN <<400, "No questions">>
    ELSE <<200, "started">>

Start(code) ==
    /\ session' = IF StartResponse(session, code)[1] = 200
                  THEN StartSession(session, now) ELSE session
    /\ UNCHANGED <<participants, answers, now, reqs, created>>

\* NextResponse without the check of the state.
NextResponse_NoStateCheck(s, code) ==
    IF code # s.session_code THEN <<404, "Session not found">>
    ELSE IF Len(_load_questions(s)) = 0 THEN <<400, "No questions">>
    ELSE IF NextEnds(s) THEN <<200, "ended">>
    ELSE <<200, "next">>

\* The response of livequiz_next.
NextResponse(s, code) ==
    IF code # s.session_code THEN <<404, "Session not found">>
    ELSE IF Len(_load_questions(s)) = 0 THEN <<400, "No questions">>
    ELSE IF s.state # "live" THEN <<400, "Session is not live">>
    ELSE IF NextEnds(s) THEN <<200, "ended">>
    ELSE <<200, "next">>

AdvanceQuestion(code) ==
    /\ session' = IF NextResponse(session, code)[1] = 200
                  THEN NextSession(session, now) ELSE session
    /\ UNCHANGED <<participants, answers, now, reqs, created>>

\* The response of livequiz_end_question.
EndQuestionResponse(s, code) ==
    IF code # s.session_code THEN <<404, "Session not found">>
    ELSE IF s.state # "live" THEN <<400, "Session is not live">>
    ELSE <<200, "ended_question">>

EndQuestion(code) ==
    /\ session' = IF EndQuestionResponse(session, code)[1] = 200
                  THEN EndQuestionSession(session, now) ELSE session
    /\ UNCHANGED <<participants, answers, now, reqs, created>>

\* The response of livequiz_end_session.
EndSessionResponse(s, code) ==
    IF code # s.session_code THEN <<404, "Session not found">>
    ELSE <<200, "ended">>

EndSessionCall(code) ==
    /\ session' = IF EndSessionResponse(session, code)[1] = 200
                  THEN EndSession(session, now) ELSE session
    /\ UNCHANGED <<participants, answers, now, reqs, created>>

\* uuid.uuid4().hex: an id that no participant holds and no join in flight drew.
FreshUuids(ps) ==
    {u \in UuidPool :
        /\ \A i \in 1..Len(ps) : ps[i].anon_id # u
        /\ \A r \in 1..NumRequests :
              reqs[r].pc = "join_insert" => reqs[r].anon_id # u}

\* anon_id = (payload.anon_id or "").strip() or uuid.uuid4().hex
JoinAnonIds(ps, anon) ==
    IF Strip(OrEmpty(anon)) # "" THEN {Strip(OrEmpty(anon))} ELSE FreshUuids(ps)

\* JoinParticipants taking the nickname of the latest join for a registered id.
JoinParticipants_Overwrite(s, ps, code, name, a, kid) ==
    IF code # s.session_code THEN ps
    ELSE IF FindParticipant(ps, a) # 0
    THEN [ps EXCEPT ![FindParticipant(ps, a)].nickname = NewNickname(s, name, kid)]
    ELSE InsertParticipant(ps, a, NewNickname(s, name, kid))

\* The participants after a join that resolved to anon id a and would draw
\* kid from _kid_name().
JoinParticipants(s, ps, code, name, a, kid) ==
    IF code # s.session_code \/ FindParticipant(ps, a) # 0 THEN ps
    ELSE InsertParticipant(ps, a, NewNickname(s, name, kid))

\* The response of livequiz_join: <<404, detail>> or <<200, anon_id, nickname>>.
JoinResponse(s, ps, code, name, a, kid) ==
    LET existing == FindParticipant(ps, a) IN
    IF code # s.session_code THEN <<404, "Session not found">>
    ELSE IF existing # 0
    THEN <<200, ps[existing].anon_id, ps[existing].nickname>>
    ELSE <<200, a, NewNickname(s, name, kid)>>

JoinAs(code, name, a, kid) ==
    /\ participants' = JoinParticipants(session, participants, code, name, a, kid)
    /\ Len(participants') <= MaxParticipants
    /\ UNCHANGED <<session, answers, now, reqs, created>>

Join(code, anon, name) ==
    \E a \in JoinAnonIds(participants, anon), kid \in KidNames :
        JoinAs(code, name, a, kid)

\* AnswerResponse without the check that the participant has joined.
AnswerResponse_NoJoinCheck(s, ps, code, anon, question_id, ch) ==
    IF code # s.session_code THEN <<404, "Session not found">>
    ELSE IF Strip(anon) = "" THEN <<400, "anon_id is required">>
    ELSE IF Upper(Strip(ch)) \notin {"A", "B", "C", "D"}
    THEN <<400, "choice must be A/B/C/D">>
    ELSE IF Strip(question_id) = "" THEN <<400, "question_id is required">>
    ELSE <<200, "ok">>

\* AnswerResponse without the check of the choice.
AnswerResponse_AnyChoice(s, ps, code, anon, question_id, ch) ==
    IF code # s.session_code THEN <<404, "Session not found">>
    ELSE IF Strip(anon) = "" THEN <<400, "anon_id is required">>
    ELSE IF Strip(question_id) = "" THEN <<400, "question_id is required">>
    ELSE IF FindParticipant(ps, Strip(anon)) = 0
    THEN <<404, "Participant not joined">>
    ELSE <<200, "ok">>

\* The response of livequiz_answer.
AnswerResponse(s, ps, code, anon, question_id, ch) ==
    IF code # s.session_code THEN <<404, "Session not found">>
    ELSE IF Strip(anon) = "" THEN <<400, "anon_id is required">>
    ELSE IF Upper(Strip(ch)) \notin {"A", "B", "C", "D"}
    THEN <<400, "choice must be A/B/C/D">>
    ELSE IF Strip(question_id) = "" THEN <<400, "question_id is required">>
    ELSE IF FindParticipant(ps, Strip(anon)) = 0
    THEN <<404, "Participant not joined">>
    ELSE <<200, "ok">>

\* The answers after livequiz_answer.
AnswerAnswers(s, ps, as, code, anon, question_id, ch, t) ==
    LET p == FindParticipant(ps, Strip(anon))
        qid == Strip(question_id)
    IN  IF AnswerResponse(s, ps, code, anon, question_id, ch)[1] # 200 THEN as
        ELSE UpsertAnswer(as, FindAnswer(as, p, qid), p, qid, Upper(Strip(ch)), t)

\* The session after livequiz_answer recorded the answers as.
AnswerSession(s, ps, as, code, anon, question_id, ch, t) ==
    IF AnswerResponse(s, ps, code, anon, question_id, ch)[1] # 200 THEN s
    ELSE AutoEndSession(s, ps, as, Strip(question_id), t)

Answer(code, anon, question_id, ch) ==
    /\ answers' = AnswerAnswers(session, participants, answers,
                                code, anon, question_id, ch, now)
    /\ Len(answers') <= MaxAnswers
    /\ session' = AnswerSession(session, participants, answers',
                                code, anon, question_id, ch, now)
    /\ UNCHANGED <<participants, now, reqs, created>>

Next ==
    \/ Tick
    \/ \E code \in CodeInputs : Start(code)
    \/ \E code \in CodeInputs : AdvanceQuestion(code)
    \/ \E code \in CodeInputs : EndQuestion(code)
    \/ \E code \in CodeInputs : EndSessionCall(code)
    \/ \E in \in JoinInputs : Join(in[1], in[2], in[3])
    \/ \E in \in AnswerInputs : Answer(in[1], in[2], in[3], in[4])

Spec == Init /\ [][Next]_vars

----------------------------------------------------------------------------
(* The handlers of join and answer, overlapping.  FastAPI runs the handlers  *)
(* on a thread pool, each with its own database session; a handler's reads   *)
(* see what is committed when they run, and each db.commit() is a step.      *)
(* The overlapping requests all fall within one tick of the clock.           *)

SetReq(r, v) == reqs' = [reqs EXCEPT ![r] = v]

\* livequiz_join up to the lookup of the existing participant: it answers at
\* once (unknown code, or the anon id is registered), or goes on to the insert.
CJoinLookup(r, code, anon, name) ==
    /\ reqs[r].pc = "idle"
    /\ \E a \in JoinAnonIds(participants, anon), kid \in KidNames :
          IF code # session.session_code \/ FindParticipant(participants, a) # 0
          THEN UNCHANGED reqs
          ELSE SetReq(r, [pc |-> "join_insert", anon_id |-> a,
                          nickname |-> NewNickname(session, name, kid)])
    /\ UNCHANGED <<session, participants, answers, now, created>>

\* db.add(p); db.commit()
CJoinInsert(r) ==
    /\ reqs[r].pc = "join_insert"
    /\ Len(participants) < MaxParticipants
    /\ participants' = InsertParticipant(participants, reqs[r].anon_id,
                                         reqs[r].nickname)
    /\ SetReq(r, Idle)
    /\ UNCHANGED <<session, answers, now, created>>

\* livequiz_answer up to the lookup of the existing answer.
CAnswerLookup(r, code, anon, question_id, ch) ==
    LET p == FindParticipant(participants, Strip(anon))
        qid == Strip(question_id)
    IN
    /\ reqs[r].pc = "idle"
    /\ IF AnswerResponse(session, participants, code, anon, question_id, ch)[1] # 200
       THEN UNCHANGED reqs
       ELSE SetReq(r, [pc |-> "answer_write", p |-> p, qid |-> qid,
                       choice |-> Upper(Strip(ch)),
                       existing |-> FindAnswer(answers, p, qid)])
    /\ UNCHANGED <<session, participants, answers, now, created>>

\* The update of the row found, or the insert of a new one; db.commit()
CAnswerWrite(r) ==
    /\ reqs[r].pc = "answer_write"
    /\ reqs[r].existing # 0 \/ Len(answers) < MaxAnswers
    /\ answers' = UpsertAnswer(answers, reqs[r].existing, reqs[r].p,
                               reqs[r].qid, reqs[r].choice, now)
    /\ SetReq(r, [pc |-> "answer_check", qid |-> reqs[r].qid])
    /\ UNCHANGED <<session, participants, now, created>>

\* The reads of the auto-end check; the session row was expired by the commit
\* and is loaded again here.
CAnswerCheck(r) ==
    /\ reqs[r].pc = "answer_check"
    /\ IF AutoEndDue(session, participants, answers, reqs[r].qid)
       THEN SetReq(r, [pc |-> "answer_expire"])
       ELSE SetReq(r, Idle)
    /\ UNCHANGED <<session, participants, answers, now, created>>

\* s.question_started_at = utcnow() - timedelta(...); db.commit()
CAnswerExpire(r) ==
    /\ reqs[r].pc = "answer_expire"
    /\ session' = ExpireTimer(session, now)
    /\ SetReq(r, Idle)
    /\ UNCHANGED <<participants, answers, now, created>>

NextConc ==
    \/ Start(SessionCode)
    \/ \E r \in 1..NumRequests, in \in JoinInputs :
          CJoinLookup(r, in[1], in[2], in[3])
    \/ \E r \in 1..NumRequests : CJoinInsert(r)
    \/ \E r \in 1..NumRequests, in \in AnswerInputs :
          CAnswerLookup(r, in[1], in[2], in[3], in[4])
    \/ \E r \in 1..NumRequests : CAnswerWrite(r)
    \/ \E r \in 1..NumRequests : CAnswerCheck(r)
    \/ \E r \in 1..NumRequests : CAnswerExpire(r)

SpecConc == Init /\ [][NextConc]_vars

----------------------------------------------------------------------------
(* The handler of next, overlapping.  The handler loads the session row,    *)
(* decides from the loaded row, and its commit writes the columns it        *)
(* assigned; nothing holds the row between the load and the commit.  The    *)
(* session runs a quiz of AdvanceQuestions questions, started while no      *)
(* next request is in flight.                                               *)

InitAdvance ==
    /\ \E anon \in BOOLEAN, auto \in BOOLEAN, secs \in SecondsInputs :
          session = CreateSession(anon, auto, secs, AdvanceQuestions)
    /\ participants = <<>>
    /\ answers = <<>>
    /\ now = 0
    /\ reqs = [r \in 1..NumRequests |-> Idle]
    /\ created = <<>>

StartAdvance ==
    /\ \A r \in 1..NumRequests : reqs[r].pc = "idle"
    /\ Start(SessionCode)

\* livequiz_next up to the decision: it is answered at once (no session, not
\* live), or goes on to the commit with the index it read.
CNextRead(r, code) ==
    /\ reqs[r].pc = "idle"
    /\ IF NextResponse(session, code)[1] # 200
       THEN UNCHANGED reqs
       ELSE SetReq(r, [pc |-> "next_write",
                       read_index |-> session.current_index,
                       message |-> NextResponse(session, code)[2]])
    /\ UNCHANGED <<session, participants, answers, now, created>>

\* The columns the commit of livequiz_next updates, from the index it read.
NextWrite(s, read_index, message, t) ==
    IF message = "ended"
    THEN [s EXCEPT !.state = "ended", !.ended_at = Some(t)]
    ELSE [s EXCEPT !.current_index = read_index + 1,
                   !.question_started_at = Some(t)]

\* db.commit()
CNextWrite(r) ==
    /\ reqs[r].pc = "next_write"
    /\ session' = NextWrite(session, reqs[r].read_index, reqs[r].message, now)
    /\ SetReq(r, Idle)
    /\ UNCHANGED <<participants, answers, now, created>>

NextAdvance ==
    \/ StartAdvance
    \/ PassTime(MaxTime)
    \/ \E r \in 1..NumRequests, code \in CodeInputs : CNextRead(r, code)
    \/ \E r \in 1..NumRequests : CNextWrite(r)

SpecAdvance == InitAdvance /\ [][NextAdvance]_vars

----------------------------------------------------------------------------
(* The question timer: the teacher's calls on a session created with any    *)
(* budget livequiz_create accepts, polled over TimerMaxTime ticks.  (The    *)
(* auto-end of livequiz_answer makes the assignment of end-question.)       *)

InitTimer ==
    /\ \E anon \in BOOLEAN, auto \in BOOLEAN, secs \in BudgetInputs :
          session = CreateSession(anon, auto, secs, MaxQuestions)
    /\ participants = <<>>
    /\ answers = <<>>
    /\ now = 0
    /\ reqs = [r \in 1..NumRequests |-> Idle]
    /\ created = <<>>

NextTimer ==
    \/ PassTime(TimerMaxTime)
    \/ \E code \in CodeInputs : Start(code)
    \/ \E code \in CodeInputs : AdvanceQuestion(code)
    \/ \E code \in CodeInputs : EndQuestion(code)
    \/ \E code \in CodeInputs : EndSessionCall(code)

SpecTimer == InitTimer /\ [][NextTimer]_vars

----------------------------------------------------------------------------
(* livequiz_create.  The calls come one at a time; the table holds session  *)
(* and the rows in created.  A call is two kinds of step: the validation    *)
(* with the cleaning and the shuffle, then one step for each code drawn.    *)
(* A created row keeps the whole cleaned question objects.                  *)

\* for _ in range(20)
RetryLimit == 20

\* The classes that exist.
ClassIds == {1}

\* str(x) of a choice value: a string is itself, JSON null is "None".
Str(v) == IF v = None THEN "None" ELSE v[1]

\* The questions a create request may carry.  choices maps the keys A-D to
\* what the request's dict holds: a string, or null (None); a key that is
\* absent reads as the default "" of choices.get.
QuestionInputs ==
    { [id |-> "q1", prompt |-> "P1", correct |-> Some("A"),
       choices |-> [l \in Labels |-> IF l \in {"A", "B"} THEN Some("x") ELSE Some("")]],
      [id |-> " q2 ", prompt |-> "P2", correct |-> Some(""),
       choices |-> [l \in Labels |-> IF l \in {"C", "D"} THEN Some(" b ") ELSE Some(" ")]],
      [id |-> " ", prompt |-> "P3", correct |-> None,
       choices |-> [l \in Labels |-> Some("x")]],
      [id |-> "q4", prompt |-> " ", correct |-> None,
       choices |-> [l \in Labels |-> Some("x")]],
      [id |-> "q5", prompt |-> "P5", correct |-> None,
       choices |-> [l \in Labels |-> IF l = "A" THEN Some("x") ELSE Some(" ")]],
      [id |-> "q6", prompt |-> "P6", correct |-> None,
       choices |-> [l \in Labels |-> IF l = "A" THEN Some("x")
                                     ELSE IF l = "B" THEN None ELSE Some("")]] }

QuestionLists == UNION {[1..n -> QuestionInputs] : n \in 0..CreateQuestions}

\* The create requests: every question list with and without shuffle, and
\* one request each for a class that does not exist and for a blank title.
CreateInputs ==
    { [class_id |-> 1, title |-> "Quiz", anonymous |-> TRUE,
       seconds_per_question |-> Some(1), shuffle_questions |-> sh,
       auto_end_when_all_answered |-> TRUE, questions |-> qs] :
         sh \in BOOLEAN, qs \in QuestionLists }
      \cup
    { [class_id |-> c, title |-> t, anonymous |-> TRUE,
       seconds_per_question |-> Some(1), shuffle_questions |-> FALSE,
       auto_end_when_all_answered |-> TRUE,
       questions |-> <<CHOOSE q \in QuestionInputs : q.id = "q1">>] :
         c \in {9}, t \in {"Quiz"} }
      \cup
    { [class_id |-> c, title |-> t, anonymous |-> TRUE,
       seconds_per_question |-> Some(1), shuffle_questions |-> FALSE,
       auto_end_when_all_answered |-> TRUE,
       questions |-> <<CHOOSE q \in QuestionInputs : q.id = "q1">>] :
         c \in {1}, t \in {" "} }

\* _rand_code draws from 32^6 codes; these are the ones drawn here.
CodePool == {SessionCode, "DEF567"}

\* non_empty = [v for v in obj["choices"].values() if v]
NonEmptyOptions(q) == {l \in Labels : Strip(Str(q.choices[l])) # ""}

\* The object appended to cleaned for the question q.
CleanQuestion(q) ==
    [id |-> Strip(q.id),
     prompt |-> Strip(q.prompt),
     choices |-> [l \in Labels |-> Strip(Str(q.choices[l]))],
     correct |-> IF q.correct = None \/ q.correct[1] = "" THEN None ELSE q.correct]

Cleaned(qs) == [i \in 1..Len(qs) |-> CleanQuestion(qs[i])]

\* The checks of the loop over the questions: the first question that fails
\* one raises.
QuestionsResponse(qs) ==
    LET bad == {i \in 1..Len(qs) :
                   \/ Strip(qs[i].id) = "" \/ Strip(qs[i].prompt) = ""
                   \/ Cardinality(NonEmptyOptions(qs[i])) < 2}
    IN  IF bad = {} THEN <<200, "ok">>
        ELSE LET i == CHOOSE k \in bad : \A j \in bad : k <= j
             IN  IF Strip(qs[i].id) = "" \/ Strip(qs[i].prompt) = ""
                 THEN <<400, "Each question needs id and prompt">>
                 ELSE <<400, "Question needs at least 2 options">>

\* The response of livequiz_create up to the loop that draws the code.
CreateValidation(payload) ==
    IF payload.class_id \notin ClassIds THEN <<404, "Class not found">>
    ELSE IF Strip(payload.title) = "" THEN <<400, "Title is required">>
    ELSE IF Len(payload.questions) = 0
    THEN <<400, "At least one question is required">>
    ELSE QuestionsResponse(payload.questions)

Perms(n) == {f \in [1..n -> 1..n] : \A i, j \in 1..n : f[i] = f[j] => i = j}

\* Shuffles keeping the input order only when the shuffle is requested.
Shuffles_Swapped(cleaned, shuffle) ==
    IF shuffle THEN {cleaned}
    ELSE {[i \in 1..Len(cleaned) |-> cleaned[Len(cleaned) + 1 - i]]}

\* if payload.shuffle_questions: random.shuffle(cleaned): the orders the
\* list may be left in.
Shuffles(cleaned, shuffle) ==
    IF shuffle
    THEN {[i \in 1..Len(cleaned) |-> cleaned[f[i]]] : f \in Perms(Len(cleaned))}
    ELSE {cleaned}

\* CodeExists finding no session for any code.
CodeExists_Never(s, cr, code) == FALSE

\* db.query(LiveQuizSessionModel).filter(session_code == code).first()
CodeExists(s, cr, code) ==
    \/ s.session_code = code
    \/ \E i \in 1..Len(cr) : cr[i].session_code = code

\* The response of livequiz_create after the draw of code, the tries-th
\* colliding draws behind it: the session's code, the 500 of the for-else,
\* or none yet (the loop goes on).
DrawResponse(s, cr, tries, code) ==
    IF ~CodeExists(s, cr, code) THEN <<200, code>>
    ELSE IF tries + 1 >= RetryLimit
    THEN <<500, "Could not generate session code">>
    ELSE <<0, "retry">>

InitCreate ==
    /\ session = CreateSession(TRUE, TRUE, Some(1), MaxQuestions)
    /\ participants = <<>>
    /\ answers = <<>>
    /\ now = 0
    /\ reqs = [r \in 1..NumRequests |-> Idle]
    /\ created = <<>>

\* livequiz_create up to the shuffle: the call is refused, or goes on to draw
\* a code for the cleaned questions.
CCreateValidate(r, payload) ==
    /\ \A q \in 1..NumRequests : reqs[q].pc = "idle"
    /\ IF CreateValidation(payload)[1] # 200
       THEN UNCHANGED reqs
       ELSE \E qs \in Shuffles(Cleaned(payload.questions),
                               payload.shuffle_questions) :
               SetReq(r, [pc |-> "create_code", payload |-> payload,
                          cleaned |-> qs, tries |-> 0])
    /\ UNCHANGED <<session, participants, answers, now, created>>

\* One turn of the loop with the code drawn, and what follows when the loop
\* is left: the 500, or the insert of the row and the commit.
CCreateDraw(r, code) ==
    /\ reqs[r].pc = "create_code"
    /\ LET resp == DrawResponse(session, created, reqs[r].tries, code)
           p == reqs[r].payload
       IN  IF resp[1] = 200
           THEN /\ created' = Append(created,
                       SessionRow(code, p.anonymous,
                                  p.auto_end_when_all_answered,
                                  p.seconds_per_question, reqs[r].cleaned))
                /\ SetReq(r, Idle)
           ELSE IF resp[1] = 500
           THEN /\ SetReq(r, Idle)
                /\ UNCHANGED created
           ELSE /\ SetReq(r, [reqs[r] EXCEPT !.tries = @ + 1])
                /\ UNCHANGED created
    /\ UNCHANGED <<session, participants, answers, now>>

NextCreate ==
    \/ \E r \in 1..NumRequests, payload \in CreateInputs :
          CCreateValidate(r, payload)
    \/ \E r \in 1..NumRequests, code \in CodePool : CCreateDraw(r, code)

SpecCreate == InitCreate /\ [][NextCreate]_vars

----------------------------------------------------------------------------
(* What a status / current poll would report in the present state *)

TimeLeft == _time_left_seconds(session, now)

CurrentQid ==
    IF _current_question(session) = None THEN None
    ELSE Some(_current_question(session)[1].id)

HasAnswered(p, qid) ==
    \E j \in 1..Len(answers) :
        answers[j].participant_id = p /\ answers[j].question_id = qid

\* Every joined participant (at least one) has answered the current question.
AllAnsweredCurrent ==
    /\ CurrentQid # None
    /\ Len(participants) > 0
    /\ \A p \in 1..Len(participants) : HasAnswered(p, CurrentQid[1])

AutoTimed ==
    session.auto_end_when_all_answered /\ Truthy(session.seconds_per_question)

\* The response of livequiz_current at time t: <<404, detail>> or <<200, body>>.
CurrentResponse(s, code, t) ==
    IF code # s.session_code THEN <<404, "Session not found">>
    ELSE <<200, [state |-> s.state,
                 anonymous |-> s.anonymous,
                 current_index |-> s.current_index,
                 total_questions |-> Len(_load_questions(s)),
                 time_left_seconds |-> _time_left_seconds(s, t),
                 question |-> _current_question(s)]>>

\* The response of livequiz_status at time t.
StatusResponse(s, ps, as, code, t) ==
    IF code # s.session_code THEN <<404, "Session not found">>
    ELSE <<200, [session_code |-> s.session_code,
                 state |-> s.state,
                 anonymous |-> s.anonymous,
                 seconds_per_question |-> s.seconds_per_question,
                 current_index |-> s.current_index,
                 total_questions |-> Len(_load_questions(s)),
                 time_left_seconds |-> _time_left_seconds(s, t),
                 joined_count |-> Len(ps),
                 answered_count |->
                     IF _current_question(s) = None THEN 0
                     ELSE CountAnswers(as, _current_question(s)[1].id)]>>

\* PollRows ending a live question whose time is up, as a poll that drove
\* the quiz would.
PollRows_EndsQuestion(s, ps, as) ==
    <<IF s.state = "live" THEN [s EXCEPT !.question_started_at = None] ELSE s,
      ps, as>>

\* The rows after livequiz_status, livequiz_current or livequiz_results:
\* the handlers assign no attribute of a row they read, add no row and do
\* not commit.
PollRows(s, ps, as) == <<s, ps, as>>

StatusPoll(code) ==
    /\ session' = PollRows(session, participants, answers)[1]
    /\ participants' = PollRows(session, participants, answers)[2]
    /\ answers' = PollRows(session, participants, answers)[3]
    /\ UNCHANGED <<now, reqs, created>>

CurrentPoll(code) ==
    /\ session' = PollRows(session, participants, answers)[1]
    /\ participants' = PollRows(session, participants, answers)[2]
    /\ answers' = PollRows(session, participants, answers)[3]
    /\ UNCHANGED <<now, reqs, created>>

ResultsPoll(code) ==
    /\ session' = PollRows(session, participants, answers)[1]
    /\ participants' = PollRows(session, participants, answers)[2]
    /\ answers' = PollRows(session, participants, answers)[3]
    /\ UNCHANGED <<now, reqs, created>>

\* The handlers of Spec with the polls among them.
NextPoll ==
    \/ Next
    \/ \E code \in CodeInputs : StatusPoll(code)
    \/ \E code \in CodeInputs : CurrentPoll(code)
    \/ \E code \in CodeInputs : ResultsPoll(code)

SpecPoll == Init /\ [][NextPoll]_vars

\* The labels a question's correct field may carry at creation.
CorrectLabels == {None, Some("A"), Some("B")}

\* The session s created with label c as every question's correct answer.
Relabel(s, c) ==
    [s EXCEPT !.questions =
        [i \in DOMAIN s.questions |-> [s.questions[i] EXCEPT !.correct = c]]]

StartStep == \E code \in CodeInputs : Start(code)
AdvanceStep == \E code \in CodeInputs : AdvanceQuestion(code)

----------------------------------------------------------------------------
(* Answer requests overlapping with the teacher's next calls.  The pupils'  *)
(* clients answer the question they are shown, the current one; the teacher *)
(* starts the quiz once and advances it while answers are in flight.        *)

\* A session created with the auto-end and a budget of one second.
InitAnswerAdvance ==
    /\ \E anon \in BOOLEAN :
          session = CreateSession(anon, TRUE, Some(1), MaxQuestions)
    /\ participants = <<>>
    /\ answers = <<>>
    /\ now = 0
    /\ reqs = [r \in 1..NumRequests |-> Idle]
    /\ created = <<>>

\* The teacher starts the quiz from the lobby.
StartOnce ==
    /\ session.state = "lobby"
    /\ Start(SessionCode)

\* An answer request for the question that is current when it arrives.
CAnswerCurrent(r, code, anon, question_id, ch) ==
    /\ Some(Strip(question_id)) = CurrentQid
    /\ CAnswerLookup(r, code, anon, question_id, ch)

NextAnswerAdvance ==
    \/ StartOnce
    \/ \E in \in JoinInputs : Join(in[1], in[2], in[3])
    \/ \E r \in 1..NumRequests, in \in AnswerInputs :
          CAnswerCurrent(r, in[1], in[2], in[3], in[4])
    \/ \E r \in 1..NumRequests : CAnswerWrite(r)
    \/ \E r \in 1..NumRequests : CAnswerCheck(r)
    \/ \E r \in 1..NumRequests : CAnswerExpire(r)
    \/ AdvanceQuestion(SessionCode)

SpecAnswerAdvance == InitAnswerAdvance /\ [][NextAnswerAdvance]_vars

----------------------------------------------------------------------------
(* livequiz_results.  Both definitions of the route call the module-level   *)
(* name _build_livequiz_results, which is bound to the later of the two     *)
(* definitions of main.py: that one is modelled.  A quotient of two counts  *)
(* is kept as the pair <<numerator, denominator>>.                          *)

ResultsParticipants == 4
ResultsAnswers == 3

\* str.lower() on the display names.
Lower(s) ==
    CASE s = "Ann"         -> "ann"
      [] s = "Zed"         -> "zed"
      [] s = "Sunny Panda" -> "sunny panda"
      [] s = "Anonymous"   -> "anonymous"
      [] s = "Player"      -> "player"
      [] OTHER             -> s

\* The place of a string in the order of str comparison (by code point),
\* among the display names and their lower-case forms.
StrRank(s) ==
    CASE s = "Ann"         -> 1
      [] s = "Anonymous"   -> 2
      [] s = "Player"      -> 3
      [] s = "Sunny Panda" -> 4
      [] s = "Zed"         -> 5
      [] s = "ann"         -> 6
      [] s = "anonymous"   -> 7
      [] s = "bob"         -> 8
      [] s = "player"      -> 9
      [] s = "sunny panda" -> 10
      [] OTHER             -> 11

\* int(round(n / d)) for n >= 0 and d > 0: Python rounds a half to the even
\* neighbour.
Round(n, d) ==
    LET q == n \div d
        r == n % d
    IN  IF 2 * r < d THEN q
        ELSE IF 2 * r > d THEN q + 1
        ELSE IF q % 2 = 0 THEN q ELSE q + 1

\* corr = str(corr).strip().upper() if corr is not None else None;
\* corr if corr in ["A", "B", "C", "D"] else None
CorrectKey(q) ==
    IF q.correct = None THEN None
    ELSE IF Upper(Strip(q.correct[1])) \in Labels
    THEN Some(Upper(Strip(q.correct[1])))
    ELSE None

\* correct_map.get(qid, None): the dict is filled in the order of the
\* questions, so the last question of an id decides.
correct_map(qs, qid) ==
    LET hits == {i \in 1..Len(qs) : Strip(qs[i].id) # "" /\ Strip(qs[i].id) = qid}
    IN  IF hits = {} THEN None
        ELSE CorrectKey(qs[CHOOSE i \in hits : \A j \in hits : j <= i])

any_correct_keys(qs) ==
    \E i \in 1..Len(qs) :
        Strip(qs[i].id) # "" /\ correct_map(qs, Strip(qs[i].id)) # None

ValidChoice(a) == Upper(Strip(a.choice)) \in Labels

\* by_pid[pid]["answered"]
AnsweredBy(as, pid) ==
    Cardinality({j \in 1..Len(as) : as[j].participant_id = pid /\ ValidChoice(as[j])})

\* by_pid[pid]["correct"]
CorrectBy(qs, as, pid) ==
    Cardinality({j \in 1..Len(as) :
        /\ as[j].participant_id = pid
        /\ correct_map(qs, as[j].question_id) # None
        /\ Upper(Strip(as[j].choice)) = correct_map(qs, as[j].question_id)[1]})

\* pid_to_name
DisplayName(s, p) ==
    IF s.anonymous THEN "Anonymous"
    ELSE IF p.nickname = None \/ p.nickname[1] = "" THEN "Player"
    ELSE p.nickname[1]

\* Percent taking the participation rate in either mode.
Percent_Participation(qs, correct, answered) ==
    IF Len(qs) # 0 THEN Round(answered * 100, Len(qs)) ELSE 0

\* percent of a leaderboard entry
Percent(qs, correct, answered) ==
    IF any_correct_keys(qs) /\ Len(qs) # 0 THEN Round(correct * 100, Len(qs))
    ELSE IF Len(qs) # 0 THEN Round(answered * 100, Len(qs))
    ELSE 0

\* The leaderboard entry of participant pid.
LeaderboardEntry(s, ps, as, pid) ==
    LET qs == _load_questions(s)
        correct == CorrectBy(qs, as, pid)
        answered == AnsweredBy(as, pid)
    IN  [participant_id |-> pid,
         name |-> DisplayName(s, ps[pid]),
         correct |-> correct,
         answered |-> answered,
         total_questions |-> Len(qs),
         percent |-> Percent(qs, correct, answered)]

\* SortKeyLess comparing the names as they are written.
SortKeyLess_CaseSensitive(scored, a, b) ==
    IF scored
    THEN \/ a.correct > b.correct
         \/ /\ a.correct = b.correct
            /\ \/ a.answered > b.answered
               \/ a.answered = b.answered /\ StrRank(a.name) < StrRank(b.name)
    ELSE \/ a.answered > b.answered
         \/ a.answered = b.answered /\ StrRank(a.name) < StrRank(b.name)

\* The sort key of a is less than the sort key of b:
\* (-correct, -answered, name.lower()) or (-answered, name.lower()).
SortKeyLess(scored, a, b) ==
    IF scored
    THEN \/ a.correct > b.correct
         \/ /\ a.correct = b.correct
            /\ \/ a.answered > b.answered
               \/ /\ a.answered = b.answered
                  /\ StrRank(Lower(a.name)) < StrRank(Lower(b.name))
    ELSE \/ a.answered > b.answered
         \/ /\ a.answered = b.answered
            /\ StrRank(Lower(a.name)) < StrRank(Lower(b.name))

\* The row that a stable sort puts at place k: rows of equal keys keep
\* their order.
SortedAt(scored, rows, k) ==
    LET Before(i, j) ==
            \/ SortKeyLess(scored, rows[i], rows[j])
            \/ ~SortKeyLess(scored, rows[j], rows[i]) /\ i < j
        Pos(i) == 1 + Cardinality({j \in 1..Len(rows) : j # i /\ Before(j, i)})
    IN  rows[CHOOSE i \in 1..Len(rows) : Pos(i) = k]

\* leaderboard.sort(key=...), the first n places.
RECURSIVE SortLeaderboard(_, _, _)
SortLeaderboard(scored, rows, n) ==
    IF n = 0 THEN <<>>
    ELSE Append(SortLeaderboard(scored, rows, n - 1), SortedAt(scored, rows, n))

\* The entries appended for the first n participants, in rowid order.
RECURSIVE LeaderboardRows(_, _, _, _)
LeaderboardRows(s, ps, as, n) ==
    IF n = 0 THEN <<>>
    ELSE Append(LeaderboardRows(s, ps, as, n - 1), LeaderboardEntry(s, ps, as, n))

Leaderboard(s, ps, as) ==
    SortLeaderboard(any_correct_keys(_load_questions(s)),
                    LeaderboardRows(s, ps, as, Len(ps)), Len(ps))

\* leaderboard[:3]
Top3(lb) == SubSeq(lb, 1, IF Len(lb) < 3 THEN Len(lb) ELSE 3)

\* q_counts.get(qid, zeros)[label]
q_counts(as, qid, label) ==
    Cardinality({j \in 1..Len(as) :
        as[j].question_id = qid /\ Upper(Strip(as[j].choice)) = label})

\* q_counts.get(qid, zeros)["total"]
q_total(as, qid) ==
    Cardinality({j \in 1..Len(as) : as[j].question_id = qid /\ ValidChoice(as[j])})

LabelRank(l) == CASE l = "A" -> 1 [] l = "B" -> 2 [] l = "C" -> 3 [] OTHER -> 4

\* The most chosen label other than corr, the first of them in the order
\* A, B, C, D; None when no wrong label was chosen.
MostCommonWrong(as, qid, corr) ==
    LET wrong == Labels \ {corr}
        best == CHOOSE k \in wrong : \A l \in wrong :
                    \/ q_counts(as, qid, k) > q_counts(as, qid, l)
                    \/ /\ q_counts(as, qid, k) = q_counts(as, qid, l)
                       /\ LabelRank(k) <= LabelRank(l)
    IN  IF q_counts(as, qid, best) > 0 THEN Some(best) ELSE None

\* (correct_ct / total) if (total and corr) else None
CorrectRate(total, corr, correct_ct) ==
    IF total # 0 /\ corr # None THEN Some(<<correct_ct, total>>) ELSE None

\* The question_stats entry of the i-th question.
QuestionStat(s, as, i) ==
    LET qs == _load_questions(s)
        qid == Strip(qs[i].id)
        corr == correct_map(qs, qid)
        total == q_total(as, qid)
        correct_ct == IF corr # None THEN q_counts(as, qid, corr[1]) ELSE 0
    IN  [question_id |-> qid,
         correct |-> corr,
         counts |-> [l \in Labels |-> q_counts(as, qid, l)],
         total_answers |-> total,
         correct_rate |-> CorrectRate(total, corr, correct_ct),
         most_common_wrong |->
             IF corr # None /\ total # 0 THEN MostCommonWrong(as, qid, corr[1])
             ELSE None]

\* The question_stats entries appended for the first n questions.
RECURSIVE QuestionStats(_, _, _)
QuestionStats(s, as, n) ==
    IF n = 0 THEN <<>>
    ELSE Append(QuestionStats(s, as, n - 1), QuestionStat(s, as, n))

RECURSIVE SumPercent(_, _)
SumPercent(lb, n) == IF n = 0 THEN 0 ELSE lb[n].percent + SumPercent(lb, n - 1)

\* rated.sort(key=correct_rate); rated[0]: the first question of the lowest rate.
Hardest(stats) ==
    LET rated == {i \in 1..Len(stats) : stats[i].correct_rate # None}
        Rate(i) == stats[i].correct_rate[1]
        Lower_(i, j) == Rate(i)[1] * Rate(j)[2] < Rate(j)[1] * Rate(i)[2]
    IN  IF rated = {} THEN None
        ELSE LET h == CHOOSE i \in rated : \A j \in rated :
                          Lower_(i, j) \/ (~Lower_(j, i) /\ i <= j)
             IN  Some([question_id |-> stats[h].question_id,
                       correct_rate |-> stats[h].correct_rate[1]])

\* The response of livequiz_results: <<404, detail>> or <<200, body>>.
ResultsResponse(s, ps, as, code) ==
    IF code # s.session_code THEN <<404, "Session not found">>
    ELSE LET lb == Leaderboard(s, ps, as)
             stats == QuestionStats(s, as, Len(_load_questions(s)))
         IN  <<200,
               [session_code |-> s.session_code,
                anonymous |-> s.anonymous,
                state |-> s.state,
                started_at |-> s.started_at,
                ended_at |-> s.ended_at,
                summary |->
                    [joined |-> Len(ps),
                     attempted_any |->
                         Cardinality({i \in 1..Len(lb) : lb[i].answered > 0}),
                     total_questions |-> Len(_load_questions(s)),
                     avg_percent |->
                         IF Len(ps) # 0
                         THEN Round(SumPercent(lb, Len(lb)), Len(ps)) ELSE 0,
                     hardest_question |-> Hardest(stats),
                     scored_mode |-> any_correct_keys(_load_questions(s))],
                top3 |-> Top3(lb),
                leaderboard |-> lb,
                question_stats |-> stats]>>

(* The results of a started quiz of two questions: a keyed and an unkeyed   *)
(* question, two unkeyed questions, or two questions of one id (create      *)
(* compares no ids).  Four pupils may join; two of them answer.             *)

ResultsQuestionLists ==
    {QuestionList(2),
     <<[id |-> "q1", correct |-> None], [id |-> "q2", correct |-> None]>>,
     <<[id |-> "q1", correct |-> Some("A")], [id |-> "q1", correct |-> None]>>}

\* <<anonymous, questions>>
ResultsSessions ==
    ({FALSE} \X ResultsQuestionLists) \cup {<<TRUE, QuestionList(2)>>}

\* <<code, anon_id, name>>
ResultsJoinInputs ==
    {<<SessionCode, Some("r1"), Some("bob")>>,
     <<SessionCode, Some("r2"), Some("Zed")>>,
     <<SessionCode, Some("r3"), None>>,
     <<SessionCode, Some("r4"), Some(" Ann ")>>}

\* <<code, anon_id, question_id, choice>>
ResultsAnswerInputs ==
    ({SessionCode} \X {"r1", "r2"} \X {"q1", "q2"} \X {"A", " b "})
        \cup {<<SessionCode, "r1", "zz", "A">>}

InitResults ==
    /\ \E in \in ResultsSessions :
          session = StartSession(SessionRow(SessionCode, in[1], FALSE, None, in[2]), 0)
    /\ participants = <<>>
    /\ answers = <<>>
    /\ now = 0
    /\ reqs = [r \in 1..NumRequests |-> Idle]
    /\ created = <<>>

ResultsJoin(code, anon, name) ==
    /\ \E a \in JoinAnonIds(participants, anon), kid \in KidNames :
          participants' = JoinParticipants(session, participants, code, name, a, kid)
    /\ Len(participants') <= ResultsParticipants
    /\ UNCHANGED <<session, answers, now, reqs, created>>

ResultsAnswer(code, anon, question_id, ch) ==
    /\ answers' = AnswerAnswers(session, participants, answers,
                                code, anon, question_id, ch, now)
    /\ Len(answers') <= ResultsAnswers
    /\ session' = AnswerSession(session, participants, answers',
                                code, anon, question_id, ch, now)
    /\ UNCHANGED <<participants, now, reqs, created>>

NextResults ==
    \/ \E in \in ResultsJoinInputs : ResultsJoin(in[1], in[2], in[3])
    \/ \E in \in ResultsAnswerInputs : ResultsAnswer(in[1], in[2], in[3], in[4])
    \/ \E code \in CodeInputs : ResultsPoll(code)

SpecResults == InitResults /\ [][NextResults]_vars

\* What a results poll would report in the present state.
Results == ResultsResponse(session, participants, answers, SessionCode)[2]

----------------------------------------------------------------------------
(* Claims *)

\* C1: once a session's state is ended, no call makes it lobby or live again.
\* Stated as a step property: no step leaves the state ended.
C1_EndedIsTerminal ==
    [][session.state = "ended" => session'.state = "ended"]_vars

\* C2: a start call on a session that is already live leaves current_index
\* and question_started_at unchanged.
C2_StartOnLiveKeepsQuestion ==
    [][(session.state = "live" /\ Start(SessionCode))
         => /\ session'.current_index = session.current_index
            /\ session'.question_started_at = session.question_started_at]_vars

\* C3: while the session is in lobby or ended, no call creates or changes an
\* Answer record.
C3_AnswersOnlyWhileLive ==
    [][session.state # "live" => answers' = answers]_vars

\* C4: an answer call whose question_id is not the current question's id
\* never moves question_started_at (never force-expires the timer).
C4_OtherQuestionNeverExpires ==
    [][\A in \in AnswerInputs :
         (Answer(in[1], in[2], in[3], in[4]) /\ Some(Strip(in[3])) # CurrentQid)
            => session'.question_started_at = session.question_started_at]_vars

\* C5 as stated: in a live session with auto-advance and a time budget,
\* whenever every joined participant (at least one) has answered the current
\* question, a poll reports time_left_seconds == 0.
C5_AllAnsweredReportsZero ==
    (session.state = "live" /\ AutoTimed /\ AllAnsweredCurrent)
        => TimeLeft = Some(0)

\* C5 as amended: in a live session with auto-advance and a time budget, an
\* accepted answer call for the current question after which every joined
\* participant has answered it leaves time_left_seconds == 0, and a reported
\* 0 stays 0 over every step that is neither a start nor an advance and keeps
\* the session live. (Each implication is stated by its contrapositive, the
\* conditions on the two states first.)
C5_CompletingAnswerExpiresTimer ==
    [][/\ ( /\ session.state = "live"
            /\ AutoTimed
            /\ AllAnsweredCurrent'
            /\ TimeLeft' # Some(0) )
          => ~\E in \in AnswerInputs :
                /\ Some(Strip(in[3])) = CurrentQid
                /\ AnswerResponse(session, participants,
                                  in[1], in[2], in[3], in[4])[1] = 200
                /\ Answer(in[1], in[2], in[3], in[4])
       /\ ( /\ TimeLeft = Some(0)
            /\ session'.state = "live"
            /\ TimeLeft' # Some(0) )
          => (StartStep \/ AdvanceStep)]_vars

\* C5 witness: the last joined participant has just answered the current
\* question, the timer reads 0 and less than the budget has elapsed since the
\* session started.
C5_Witness ==
    /\ session.state = "live" /\ AutoTimed /\ AllAnsweredCurrent
    /\ Len(participants) = 2
    /\ TimeLeft = Some(0)
    /\ now - session.started_at[1] < session.seconds_per_question[1] * TicksPerSecond
    /\ \E j \in 1..Len(answers) :
          answers[j].question_id = CurrentQid[1] /\ answers[j].answered_at = now

\* C6: an answer call never changes current_index or state; of the session
\* row only question_started_at may change.
C6_AnswerKeepsIndexAndState ==
    [][( /\ session' # session
         /\ \E in \in AnswerInputs : Answer(in[1], in[2], in[3], in[4]) )
         => /\ session'.current_index = session.current_index
            /\ session'.state = session.state
            /\ session' = [session EXCEPT !.question_started_at =
                                            session'.question_started_at]]_vars

\* C6 witness: the auto-end check has fired at the second question: every
\* participant has answered it, one of them now, and the timer was moved back
\* by the budget.
C6_Witness ==
    /\ session.state = "live" /\ AutoTimed /\ AllAnsweredCurrent
    /\ session.current_index = 1
    /\ session.question_started_at =
          Some(now - session.seconds_per_question[1] * TicksPerSecond)
    /\ \E j \in 1..Len(answers) :
          answers[j].question_id = CurrentQid[1] /\ answers[j].answered_at = now

\* C7: under sequential calls join is idempotent: no two participants share
\* an anon id; a join with a non-blank anon id that is already registered
\* changes no participant and returns the registered anon id and the stored
\* nickname, whatever name it supplies; the call that registered the id
\* returned the nickname it stored; and a stored row never changes.
UniqueAnonIds ==
    \A i, j \in 1..Len(participants) :
        participants[i].anon_id = participants[j].anon_id => i = j

RejoinReturnsStored ==
    \A in \in JoinInputs, kid \in KidNames :
        LET a == Strip(OrEmpty(in[2]))
            p == FindParticipant(participants, a)
        IN  (in[1] = session.session_code /\ a # "" /\ p # 0)
              => /\ JoinParticipants(session, participants,
                                     in[1], in[3], a, kid) = participants
                 /\ JoinResponse(session, participants, in[1], in[3], a, kid)
                       = <<200, a, participants[p].nickname>>

FirstJoinReturnsStored ==
    participants' # participants
      => \A in \in JoinInputs, kid \in KidNames :
            LET a == Strip(OrEmpty(in[2])) IN
            (a # "" /\ JoinAs(in[1], in[3], a, kid))
              => /\ Len(participants') = Len(participants) + 1
                 /\ JoinResponse(session, participants, in[1], in[3], a, kid)
                       = <<200, participants'[Len(participants')].anon_id,
                           participants'[Len(participants')].nickname>>
                 /\ participants'[Len(participants')].anon_id = a

StoredRowsKept ==
    /\ Len(participants') >= Len(participants)
    /\ \A i \in 1..Len(participants) : participants'[i] = participants[i]

C7_JoinIdempotent ==
    /\ [](UniqueAnonIds /\ RejoinReturnsStored)
    /\ [][FirstJoinReturnsStored /\ StoredRowsKept]_vars

\* C7 witness: a participant is registered under a client-supplied anon id
\* with a nickname, and a join request for that id carries a name that would
\* give another nickname.
C7_Witness ==
    /\ Len(participants) = 2
    /\ \E in \in JoinInputs, kid \in KidNames :
          LET a == Strip(OrEmpty(in[2]))
              p == FindParticipant(participants, a)
          IN  /\ in[1] = session.session_code /\ a # "" /\ p # 0
              /\ participants[p].nickname # None
              /\ NewNickname(session, in[3], kid) # participants[p].nickname

\* C9: under sequential calls there is at most one Answer per (participant,
\* question id), and an accepted answer call leaves that pair's one record
\* with the call's choice (uppercased) and time, every other record unchanged:
\* a new record the first time, the same record the second time.
UniqueAnswers ==
    \A i, j \in 1..Len(answers) :
        ( /\ answers[i].participant_id = answers[j].participant_id
          /\ answers[i].question_id = answers[j].question_id ) => i = j

AnswerLeavesOneRecord ==
    answers' # answers
      => \A in \in AnswerInputs :
            Answer(in[1], in[2], in[3], in[4])
              => LET p == FindParticipant(participants, Strip(in[2]))
                     qid == Strip(in[3])
                     e == FindAnswer(answers, p, qid)
                     k == IF e = 0 THEN Len(answers) + 1 ELSE e
                 IN  /\ Len(answers') = IF e = 0 THEN Len(answers) + 1
                                        ELSE Len(answers)
                     /\ answers'[k] = [participant_id |-> p, question_id |-> qid,
                                       choice |-> Upper(Strip(in[4])),
                                       answered_at |-> now]
                     /\ \A i \in 1..Len(answers) :
                           i # k => answers'[i] = answers[i]
                     /\ Cardinality({i \in 1..Len(answers') :
                                       /\ answers'[i].participant_id = p
                                       /\ answers'[i].question_id = qid}) = 1

C9_OneAnswerPerQuestion ==
    []UniqueAnswers /\ [][AnswerLeavesOneRecord]_vars

\* C9 witness: the first record carries a later time than the second, so it
\* was submitted again after the second was created.
C9_Witness ==
    /\ Len(answers) = 2
    /\ answers[1].answered_at > answers[2].answered_at
    /\ answers[1].participant_id # answers[2].participant_id

\* C8: when join requests for the same anon id overlap, the session still
\* holds at most one Participant with that id.
C8_AnonIdUniqueUnderOverlap ==
    \A i \in 1..Len(participants) :
        Cardinality({j \in 1..Len(participants) :
                        participants[j].anon_id = participants[i].anon_id}) <= 1

\* C10: when answer requests of one participant for one question overlap,
\* exactly one Answer exists for that (participant, question) once both are
\* done.
C10_OneAnswerUnderOverlap ==
    (\A r \in 1..NumRequests : reqs[r].pc = "idle")
      => \A i \in 1..Len(answers) :
            Cardinality({j \in 1..Len(answers) :
                            /\ answers[j].participant_id = answers[i].participant_id
                            /\ answers[j].question_id = answers[i].question_id}) = 1

\* C11: overlapping advance calls lose no increment: the commit of a
\* successful advance call that found the session at index i with at least
\* two questions remaining moves current_index up by one, so that two such
\* calls leave it at i+2 and never at i+1.
C11_OverlappingAdvancesBothCount ==
    [][\A r \in 1..NumRequests :
         ( /\ reqs[r].pc = "next_write"
           /\ reqs[r].message = "next"
           /\ reqs[r].read_index + 2 <= Len(session.questions) - 1
           /\ CNextWrite(r) )
           => session'.current_index = session.current_index + 1]_vars

\* C12: the question in the response of the get-current-question operation
\* has no correct-answer field, and the response is the same for a session
\* that differs only in the correct labels of its questions.
C12_CurrentHidesCorrect ==
    LET r == CurrentResponse(session, SessionCode, now) IN
    /\ r[2].question # None => "correct" \notin DOMAIN r[2].question[1]
    /\ \A c \in CorrectLabels :
          CurrentResponse(Relabel(session, c), SessionCode, now) = r

\* C13: every stored Answer has the id of a question of its session: an
\* answer call whose question_id is not the id of any question of the
\* session creates no Answer record.
C13_AnswersReferenceQuestions ==
    \A j \in 1..Len(answers) :
        \E i \in 1..Len(session.questions) :
            session.questions[i].id = answers[j].question_id

\* C14: in every reachable state in which the session is not ended,
\* -1 <= current_index <= len(questions) - 1.
C14_IndexInRange ==
    session.state # "ended"
      => /\ -1 <= session.current_index
         /\ session.current_index <= Len(_load_questions(session)) - 1

\* C14 witness: the live session is at its last question, reached by an
\* advance call (the question started after the session did).
C14_Witness ==
    /\ session.state = "live"
    /\ session.current_index = Len(_load_questions(session)) - 1
    /\ session.question_started_at[1] > session.started_at[1]

\* C15: once the session is ended, no call changes current_index.
C15_EndedIndexFrozen ==
    [][session.state = "ended"
         => session'.current_index = session.current_index]_vars

\* C16: an advance call on a live session at its last question ends the
\* session, stamps ended_at, answers "ended" and leaves current_index at
\* len(questions) - 1.
C16_AdvanceAtLastEnds ==
    [][( /\ session.state = "live"
         /\ session.current_index = Len(_load_questions(session)) - 1
         /\ AdvanceQuestion(SessionCode) )
         => /\ NextResponse(session, SessionCode) = <<200, "ended">>
            /\ session'.state = "ended"
            /\ session'.ended_at = Some(now)
            /\ session'.current_index = Len(_load_questions(session)) - 1
            /\ session'.current_index = session.current_index]_vars

\* C16 witness: the session has ended at its last question, some time after
\* that question started.
C16_Witness ==
    /\ session.state = "ended"
    /\ session.current_index = Len(_load_questions(session)) - 1
    /\ session.ended_at = Some(now)
    /\ session.ended_at[1] > session.question_started_at[1]

NotLiveRejected ==
    session.state # "live"
      => /\ NextResponse(session, SessionCode) = <<400, "Session is not live">>
         /\ EndQuestionResponse(session, SessionCode)
               = <<400, "Session is not live">>

NotLiveUnchanged ==
    ( /\ session.state # "live"
      /\ AdvanceQuestion(SessionCode) \/ EndQuestion(SessionCode) )
      => /\ session'.state = session.state
         /\ session'.current_index = session.current_index
         /\ session'.question_started_at = session.question_started_at
         /\ session'.ended_at = session.ended_at

C18_NotLiveRejected ==
    []NotLiveRejected /\ [][NotLiveUnchanged]_vars

\* C18 witness: a session that ended after it ran, with a time budget, and a
\* lobby session are both states where the calls are rejected; this is the
\* ended one.
C18_Witness ==
    /\ session.state = "ended"
    /\ session.current_index >= 0
    /\ Truthy(session.seconds_per_question)
    /\ NextResponse(session, SessionCode)[1] = 400
    /\ EndQuestionResponse(session, SessionCode)[1] = 400

\* C19: right after a successful end_question call on a live session with a
\* time budget, a poll reports time_left_seconds == 0, the session is still
\* live and current_index is unchanged.
C19_EndQuestionZeroesTimer ==
    [][( /\ session.state = "live"
         /\ Truthy(session.seconds_per_question)
         /\ EndQuestion(SessionCode) )
         => /\ EndQuestionResponse(session, SessionCode) = <<200, "ended_question">>
            /\ TimeLeft' = Some(0)
            /\ session'.state = "live"
            /\ session'.current_index = session.current_index]_vars

\* C19 witness: a question with a budget of 2 seconds was ended early, less
\* than the budget after it could have started: the start of the question is
\* the present time less the budget, and the timer reads 0.
C19_Witness ==
    /\ session.state = "live"
    /\ session.seconds_per_question = Some(2)
    /\ session.current_index = 1
    /\ session.question_started_at = Some(now - 2 * TicksPerSecond)
    /\ now - session.started_at[1] < 2 * TicksPerSecond
    /\ TimeLeft = Some(0)

\* C20: a numeric time_left_seconds reported by status or current lies in
\* [0, seconds_per_question], for every budget livequiz_create accepts and
\* every poll time.
C20_TimeLeftWithinBudget ==
    TimeLeft # None
      => /\ 0 <= TimeLeft[1]
         /\ TimeLeft[1] <= session.seconds_per_question[1]

\* C21: a start call on a session in lobby (its question list is not empty)
\* answers "started", makes the session live, sets current_index to 0 and
\* stamps started_at and question_started_at with the present time; a poll
\* right after it returns the first question and, where a positive budget is
\* configured, the full budget as the time left.
C21_StartFromLobby ==
    [][( /\ session.state = "lobby"
         /\ Start(SessionCode) )
         => /\ StartResponse(session, SessionCode) = <<200, "started">>
            /\ session'.state = "live"
            /\ session'.current_index = 0
            /\ session'.started_at = Some(now)
            /\ session'.question_started_at = Some(now)
            /\ CurrentResponse(session', SessionCode, now')[2].question
                  = Some(session.questions[1])
            /\ ( /\ session.seconds_per_question # None
                 /\ session.seconds_per_question[1] > 0 )
                  => TimeLeft' = session.seconds_per_question]_vars

\* C21 witness: a session with a budget of 2 seconds was started from the
\* lobby some time after its creation, and the poll reports the first
\* question with 2 seconds left.
C21_Witness ==
    /\ session.state = "live"
    /\ session.current_index = 0
    /\ now > 0
    /\ session.started_at = Some(now)
    /\ session.question_started_at = Some(now)
    /\ session.ended_at = None
    /\ session.seconds_per_question = Some(2)
    /\ TimeLeft = Some(2)
    /\ CurrentQid = Some("q1")

\* C22: an end_session call ends the session from any state (lobby, live or
\* ended) and stamps ended_at, and changes neither current_index nor any
\* Participant or Answer.
C22_EndSessionFromAnyState ==
    [][EndSessionCall(SessionCode)
         => /\ EndSessionResponse(session, SessionCode) = <<200, "ended">>
            /\ session'.state = "ended"
            /\ session'.ended_at = Some(now)
            /\ session'.current_index = session.current_index
            /\ participants' = participants
            /\ answers' = answers]_vars

\* C22 witness: a session with a participant was ended in the lobby, before
\* it was ever started.
C22_Witness ==
    /\ session.state = "ended"
    /\ session.started_at = None
    /\ session.current_index = -1
    /\ session.ended_at = Some(now)
    /\ now > 0
    /\ Len(participants) > 0

\* C23: an answer call with an anon id that has not joined the session fails
\* (with 404 "Participant not joined" when the rest of the request is well
\* formed) and records nothing: no Answer is created or changed and the
\* session row, the question timer with it, is left as it is.
C23_UnjoinedAnswerRejected ==
    \A in \in AnswerInputs :
        ( /\ in[1] = session.session_code
          /\ FindParticipant(participants, Strip(in[2])) = 0 )
          => /\ AnswerResponse(session, participants,
                               in[1], in[2], in[3], in[4])[1] \in {400, 404}
             /\ ( /\ Strip(in[2]) # "" /\ Strip(in[3]) # ""
                  /\ Upper(Strip(in[4])) \in Labels )
                  => AnswerResponse(session, participants,
                                    in[1], in[2], in[3], in[4])
                        = <<404, "Participant not joined">>
             /\ AnswerAnswers(session, participants, answers,
                              in[1], in[2], in[3], in[4], now) = answers
             /\ AnswerSession(session, participants, answers,
                              in[1], in[2], in[3], in[4], now) = session

\* C23 witness: in a live session with auto-advance and a running timer the
\* one participant has answered the current question, and p1 has not joined:
\* an answer of p1 that was recorded would be counted.
C23_Witness ==
    /\ session.state = "live" /\ AutoTimed
    /\ TimeLeft # Some(0)
    /\ Len(participants) = 1
    /\ FindParticipant(participants, "p1") = 0
    /\ Len(answers) = 1
    /\ Some(answers[1].question_id) # CurrentQid

\* C24: every stored Answer's choice is one of A, B, C, D; an accepted call
\* stores the submitted choice in uppercase, a choice that is one of the four
\* labels in either case is not refused as a choice, and a call with a choice
\* outside the labels, a blank question_id or a blank anon_id answers 400 and
\* changes nothing.
StoredChoicesAreLabels ==
    \A j \in 1..Len(answers) : answers[j].choice \in Labels

ChoiceValidated ==
    \A in \in AnswerInputs :
        LET resp == AnswerResponse(session, participants,
                                   in[1], in[2], in[3], in[4])
            as2 == AnswerAnswers(session, participants, answers,
                                 in[1], in[2], in[3], in[4], now)
            p == FindParticipant(participants, Strip(in[2]))
        IN  in[1] = session.session_code
              => /\ ( \/ Strip(in[4]) \notin (Labels \cup {"a", "b", "c", "d"})
                      \/ Strip(in[3]) = ""
                      \/ Strip(in[2]) = "" )
                      => /\ resp[1] = 400
                         /\ as2 = answers
                         /\ AnswerSession(session, participants, answers,
                               in[1], in[2], in[3], in[4], now) = session
                 /\ Strip(in[4]) \in (Labels \cup {"a", "b", "c", "d"})
                      => resp # <<400, "choice must be A/B/C/D">>
                 /\ resp[1] = 200
                      => /\ as2[FindAnswer(as2, p, Strip(in[3]))].choice \in Labels
                         /\ Strip(in[4]) \in {"a", "b", "c", "d"}
                              => as2[FindAnswer(as2, p, Strip(in[3]))].choice
                                    \in {"A", "B", "C", "D"} \ {Strip(in[4])}

C24_ChoicesAreUppercaseLabels ==
    StoredChoicesAreLabels /\ ChoiceValidated

\* C24 witness: a choice submitted as " b " is stored as "B", and p1, whose
\* request with the choice "E" is among the requests, has joined.
C24_Witness ==
    /\ \E j \in 1..Len(answers) : answers[j].choice = "B"
    /\ FindParticipant(participants, "p1") # 0
    /\ Len(answers) = 2

\* C25: in an anonymous session the stored nickname of every Participant is
\* null in every reachable state, and no join, whatever name it carries,
\* stores or returns one.
C25_AnonymousHasNoNicknames ==
    session.anonymous
      => /\ \A i \in 1..Len(participants) : participants[i].nickname = None
         /\ \A in \in JoinInputs, kid \in KidNames :
               \A a \in JoinAnonIds(participants, in[2]) :
                  LET ps2 == JoinParticipants(session, participants,
                                              in[1], in[3], a, kid)
                      resp == JoinResponse(session, participants,
                                           in[1], in[3], a, kid)
                  IN  /\ \A i \in 1..Len(ps2) : ps2[i].nickname = None
                      /\ resp[1] = 200 => resp[3] = None

\* C25 witness: an anonymous session holds the participant p1, whose join
\* requests carry the name " Ann ", and a second participant.
C25_Witness ==
    /\ session.anonymous
    /\ Len(participants) = 2
    /\ FindParticipant(participants, "p1") # 0
    /\ \E in \in JoinInputs : Strip(OrEmpty(in[2])) = "p1" /\ in[3] = Some(" Ann ")

\* C28: the question list of a session never changes after creation: no
\* start, advance, end_question, end_session, join or answer call changes the
\* questions, their order or the total_questions a poll reports.
C28_QuestionsImmutable ==
    [][/\ session'.questions = session.questions
       /\ CurrentResponse(session', SessionCode, now')[2].total_questions
             = CurrentResponse(session, SessionCode, now)[2].total_questions]_vars

\* C28 witness: the session has been started, moved on to its second
\* question and ended, with a participant and an answer, and still has the
\* questions it was created with.
C28_Witness ==
    /\ session.state = "ended"
    /\ session.current_index = 1
    /\ Len(participants) > 0
    /\ Len(answers) > 0
    /\ session.questions = QuestionList(MaxQuestions)

\* C26: the validation of the questions is all or nothing: a create call
\* (for a class that exists, with a title) whose question list is empty, or
\* in which some question has a blank id, a blank prompt or fewer than two
\* non-empty choices among A-D, answers 400 and creates no session row,
\* whatever the other questions are: no such call gets as far as drawing a
\* code.  A choice is non-empty when it is a string with a character that is
\* not white space.
QuestionAcceptable(q) ==
    /\ Strip(q.id) # ""
    /\ Strip(q.prompt) # ""
    /\ Cardinality({l \in Labels :
                       q.choices[l] # None /\ Strip(q.choices[l][1]) # ""}) >= 2

QuestionsAcceptable(qs) ==
    Len(qs) > 0 /\ \A i \in 1..Len(qs) : QuestionAcceptable(qs[i])

C26_CreateValidatesAllQuestions ==
    /\ \A payload \in CreateInputs :
          ( /\ payload.class_id \in ClassIds
            /\ Strip(payload.title) # ""
            /\ ~QuestionsAcceptable(payload.questions) )
            => CreateValidation(payload)[1] = 400
    /\ \A r \in 1..NumRequests :
          reqs[r].pc = "create_code"
            => QuestionsAcceptable(reqs[r].payload.questions)

\* C27: for every accepted create call the persisted list has the length of
\* the submitted one; with shuffle disabled its questions are the submitted
\* ones in the submitted order, with shuffle enabled every question id
\* occurs in it as often as in the submitted list.
IdCount(qs, id) == Cardinality({i \in 1..Len(qs) : Strip(qs[i].id) = id})

C27_PersistedOrder ==
    [][\A r \in 1..NumRequests :
         ( /\ reqs[r].pc = "create_code"
           /\ created' # created )
           => LET row == created'[Len(created')]
                  input == reqs[r].payload.questions
              IN  /\ Len(created') = Len(created) + 1
                  /\ Len(row.questions) = Len(input)
                  /\ ~reqs[r].payload.shuffle_questions
                        => \A i \in 1..Len(input) :
                              /\ row.questions[i].id = Strip(input[i].id)
                              /\ row.questions[i].prompt = Strip(input[i].prompt)
                  /\ \A i \in 1..Len(input) :
                        IdCount(row.questions, Strip(input[i].id))
                           = IdCount(input, Strip(input[i].id))]_vars

\* C27 witness: a session was created from a shuffled list of two different
\* questions, and a call with shuffle enabled is in flight whose cleaned
\* list is not in the order submitted.
C27_Witness ==
    /\ Len(created) = 1
    /\ Len(created[1].questions) = 2
    /\ created[1].questions[1].id # created[1].questions[2].id
    /\ \E r \in 1..NumRequests :
          /\ reqs[r].pc = "create_code"
          /\ reqs[r].payload.shuffle_questions
          /\ reqs[r].cleaned[1].id # Strip(reqs[r].payload.questions[1].id)

\* C29: session codes are unique: no two rows of the table share a code; a
\* draw of a code that a session has creates nothing and the call draws
\* again, until the 20th such draw, which ends it with a 500 and no row; a
\* draw of a code that no session has creates the row with that code and
\* returns it.
TableCodes ==
    {session.session_code} \cup {created[i].session_code : i \in 1..Len(created)}

UniqueCodes ==
    /\ \A i \in 1..Len(created) : created[i].session_code # session.session_code
    /\ \A i, j \in 1..Len(created) :
          created[i].session_code = created[j].session_code => i = j

DrawRegenerates ==
    \A r \in 1..NumRequests :
        reqs[r].pc = "create_code"
          => \A code \in CodePool :
                CCreateDraw(r, code)
                  => IF code \in TableCodes
                     THEN /\ created' = created
                          /\ IF reqs[r].tries + 1 = 20
                             THEN /\ reqs'[r] = Idle
                                  /\ DrawResponse(session, created,
                                                   reqs[r].tries, code)[1] = 500
                             ELSE /\ reqs'[r].pc = "create_code"
                                  /\ reqs'[r].tries = reqs[r].tries + 1
                     ELSE /\ Len(created') = Len(created) + 1
                          /\ created'[Len(created')].session_code = code
                          /\ reqs'[r] = Idle
                          /\ DrawResponse(session, created,
                                           reqs[r].tries, code) = <<200, code>>

C29_SessionCodesUnique ==
    []UniqueCodes /\ [][DrawRegenerates]_vars

\* C29 witness: a session was created beside the existing one, every code of
\* the pool is taken, and a call has drawn 19 taken codes: its next draw is
\* the last.
C29_Witness ==
    /\ Len(created) = 1
    /\ \A code \in CodePool : code \in TableCodes
    /\ \E r \in 1..NumRequests :
          reqs[r].pc = "create_code" /\ reqs[r].tries = 19

\* C30: status, current and results are read-only: a call of any of them, in
\* any state of the session, leaves the session row, every Participant and
\* every Answer unchanged.
C30_PollsReadOnly ==
    [][(\E code \in CodeInputs :
           StatusPoll(code) \/ CurrentPoll(code) \/ ResultsPoll(code))
         => /\ session' = session
            /\ participants' = participants
            /\ answers' = answers]_vars

\* C30 witness: a live session whose timer has run out, with every
\* participant's answer to the current question in, is polled: status
\* reports the answers and 0 seconds left.
C30_Witness ==
    /\ session.state = "live"
    /\ Len(participants) = 2
    /\ StatusResponse(session, participants, answers, SessionCode, now)[2]
          .time_left_seconds = Some(0)
    /\ StatusResponse(session, participants, answers, SessionCode, now)[2]
          .answered_count = 2
    /\ CurrentResponse(session, SessionCode, now)[2].question # None

\* The entry of participant pid in the leaderboard lb.
EntryOf(lb, pid) ==
    lb[CHOOSE i \in 1..Len(lb) : lb[i].participant_id = pid]

\* The answer rows of participant pid.
AnswersOf(pid) == {j \in 1..Len(answers) : answers[j].participant_id = pid}

\* Two questions of which the first has the correct label A; three joined;
\* one answered the first question A, another answered it B, the third
\* answered nothing.  a and b are the rows of the two answers.
C31_Scenario(a, b) ==
    /\ session.questions = QuestionList(2)
    /\ Len(participants) = 3
    /\ Len(answers) = 2
    /\ a \in 1..2 /\ b \in 1..2 /\ a # b
    /\ answers[a].participant_id # answers[b].participant_id
    /\ answers[a].question_id = "q1" /\ answers[a].choice = "A"
    /\ answers[b].question_id = "q1" /\ answers[b].choice = "B"

\* C31: the leaderboard has exactly one entry for each joined participant;
\* a participant without answers has answered = 0, correct = 0, percent = 0;
\* and with two questions, one keyed A, and participants answering A, B and
\* nothing, the entries are (correct 1, percent 50), (correct 0, percent 0)
\* and (answered 0, correct 0, percent 0).
C31_OneEntryPerParticipant ==
    LET lb == Results.leaderboard IN
    /\ Len(lb) = Len(participants)
    /\ \A pid \in 1..Len(participants) :
          /\ Cardinality({i \in 1..Len(lb) : lb[i].participant_id = pid}) = 1
          /\ AnswersOf(pid) = {} =>
                /\ EntryOf(lb, pid).answered = 0
                /\ EntryOf(lb, pid).correct = 0
                /\ EntryOf(lb, pid).percent = 0
    /\ \A a, b \in 1..2 : C31_Scenario(a, b) =>
          /\ EntryOf(lb, answers[a].participant_id).correct = 1
          /\ EntryOf(lb, answers[a].participant_id).percent = 50
          /\ EntryOf(lb, answers[b].participant_id).correct = 0
          /\ EntryOf(lb, answers[b].participant_id).percent = 0

C31_Witness ==
    /\ \E a, b \in 1..2 : C31_Scenario(a, b)
    /\ LET lb == Results.leaderboard IN
        /\ Len(lb) = 3
        /\ \E i, j, k \in 1..3 :
              /\ lb[i].correct = 1 /\ lb[i].percent = 50
              /\ lb[j].answered = 1 /\ lb[j].percent = 0
              /\ lb[k].answered = 0 /\ lb[k].percent = 0

\* The session is in scored mode: some question has a designated correct
\* label among A-D.
ScoredMode == \E i \in 1..Len(session.questions) : CorrectKey(session.questions[i]) # None

\* The questions of the session that participant pid has answered.
AnsweredQuestions(pid) ==
    {i \in 1..Len(session.questions) :
        \E j \in AnswersOf(pid) : answers[j].question_id = session.questions[i].id}

\* The answers of participant pid that equal the designated label of a
\* question of the session they were given to.
CorrectAnswers(pid) ==
    {j \in AnswersOf(pid) :
        \E i \in 1..Len(session.questions) :
            /\ answers[j].question_id = session.questions[i].id
            /\ Some(answers[j].choice) = CorrectKey(session.questions[i])}

\* C32: the percent of every leaderboard entry is round(correct / total * 100)
\* in scored mode and round(answered / total * 100) otherwise, correct being
\* the number of the participant's answers that equal the designated label
\* and answered the number of questions the participant answered.
C32_PercentOfCorrectOrAnswered ==
    LET lb == Results.leaderboard
        total == Len(session.questions)
    IN  \A i \in 1..Len(lb) :
            lb[i].percent =
                IF ScoredMode
                THEN Round(Cardinality(CorrectAnswers(lb[i].participant_id)) * 100, total)
                ELSE Round(Cardinality(AnsweredQuestions(lb[i].participant_id)) * 100, total)

\* Entry a may stand directly before entry b: in scored mode by correct
\* descending, then answered descending, then name ascending without regard
\* to case; in unscored mode by answered descending, then name ascending.
InOrder(scored, a, b) ==
    IF scored
    THEN \/ a.correct > b.correct
         \/ /\ a.correct = b.correct
            /\ \/ a.answered > b.answered
               \/ /\ a.answered = b.answered
                  /\ StrRank(Lower(a.name)) <= StrRank(Lower(b.name))
    ELSE \/ a.answered > b.answered
         \/ /\ a.answered = b.answered
            /\ StrRank(Lower(a.name)) <= StrRank(Lower(b.name))

\* C33: the leaderboard is in the order of its mode, and top3 is exactly
\* its first min(3, n) entries.
C33_LeaderboardSorted ==
    LET lb == Results.leaderboard
        top3 == Results.top3
        n == Len(lb)
    IN  /\ \A i \in 1..(n - 1) : InOrder(ScoredMode, lb[i], lb[i + 1])
        /\ Len(top3) = (IF n < 3 THEN n ELSE 3)
        /\ \A i \in 1..Len(top3) : top3[i] = lb[i]

\* Four joined; bob and Zed each gave one correct answer and stand in that
\* order before Ann, and top3 leaves the fourth entry out.
C33_Witness ==
    LET lb == Results.leaderboard IN
    /\ ScoredMode
    /\ Len(lb) = 4
    /\ Len(Results.top3) = 3
    /\ lb[1].name = "bob" /\ lb[1].correct = 1
    /\ lb[2].name = "Zed" /\ lb[2].correct = 1
    /\ lb[3].name = "Ann"
    /\ lb[4].name = "Sunny Panda"

\* The valid answers recorded for the i-th question of the session.
ValidAnswersTo(i) ==
    {j \in 1..Len(answers) :
        answers[j].question_id = session.questions[i].id /\ ValidChoice(answers[j])}

\* C34: the results report a correct rate for a question exactly when the
\* question has a designated correct label among A-D and a valid answer was
\* recorded for it; the rate is then the number of answers equal to the
\* label over the number of valid answers.
C34_CorrectRateWhenKeyedAndAnswered ==
    LET stats == Results.question_stats IN
    \A i \in 1..Len(session.questions) :
        LET corr == CorrectKey(session.questions[i])
            valid == ValidAnswersTo(i)
        IN  IF corr # None /\ valid # {}
            THEN stats[i].correct_rate =
                    Some(<<Cardinality({j \in valid : answers[j].choice = corr[1]}),
                           Cardinality(valid)>>)
            ELSE stats[i].correct_rate = None

\* C35: when an answer request has recorded its answer for question k and
\* an advance moves the session on before the request evaluates its
\* auto-advance check, the check does not resolve to expire the timer: it
\* resolves to expire only the timer of the question that was answered.
\* (The write that follows the check assigns question_started_at of the
\* session row, which times the current question.)
C35_AdvanceDuringAnswerKeepsTimer ==
    [][\A r \in 1..NumRequests :
          (/\ reqs[r].pc = "answer_check"
           /\ CAnswerCheck(r)
           /\ reqs'[r].pc = "answer_expire")
          => Some(reqs[r].qid) = CurrentQid]_vars

\* C36: after any sequence of joins and answers every leaderboard entry has
\* 0 <= correct <= answered <= total_questions and 0 <= percent <= 100.
C36_EntryWithinBounds ==
    LET lb == Results.leaderboard IN
    \A i \in 1..Len(lb) :
        /\ 0 <= lb[i].correct
        /\ lb[i].correct <= lb[i].answered
        /\ lb[i].answered <= lb[i].total_questions
        /\ 0 <= lb[i].percent
        /\ lb[i].percent <= 100

\* C37: while the session stays live on the same question (no start, no
\* advance), the time left that a poll reports does not increase from one
\* step to the next, and a reported 0 stays 0, whatever joins, answers or
\* end-question calls occur.
C37_TimeLeftNeverIncreases ==
    [][(/\ session.state = "live"
        /\ session'.state = "live"
        /\ TimeLeft # None
        /\ ~StartStep
        /\ ~AdvanceStep)
       => /\ TimeLeft' # None
          /\ TimeLeft'[1] <= TimeLeft[1]]_vars

\* The timer was ended with time in hand, then time passed and a pupil
\* answered: 0 is still reported.
C37_Witness ==
    /\ session.state = "live"
    /\ TimeLeft = Some(0)
    /\ Truthy(session.seconds_per_question)
    /\ session.question_started_at[1]
           < now - session.seconds_per_question[1] * TicksPerSecond
    /\ session.question_started_at[1] < 0
    /\ Len(answers) > 0

\* C38: the persisted question list of every created session has pairwise
\* distinct question ids.
C38_QuestionIdsDistinct ==
    \A k \in 1..Len(created) :
        \A i, j \in 1..Len(created[k].questions) :
            i # j => created[k].questions[i].id # created[k].questions[j].id

\* C39: with one request at a time, the status operation reports
\* answered_count <= joined_count in every reachable state.
C39_AnsweredAtMostJoined ==
    LET status == StatusResponse(session, participants, answers, SessionCode, now)[2]
    IN  status.answered_count <= status.joined_count

\* Two have joined a live session and both have answered its current
\* question.
C39_Witness ==
    LET status == StatusResponse(session, participants, answers, SessionCode, now)[2]
    IN  /\ session.state = "live"
        /\ status.joined_count = 2
        /\ status.answered_count = 2

\* The session after k advance calls in a row at time t.
RECURSIVE AfterAdvances(_, _, _)
AfterAdvances(s, k, t) ==
    IF k = 0 THEN s
    ELSE LET before == AfterAdvances(s, k - 1, t)
         IN  IF NextResponse(before, SessionCode)[1] = 200
             THEN NextSession(before, t) ELSE before

\* The reply to the k-th of the advance calls.
AdvanceReply(s, k, t) == NextResponse(AfterAdvances(s, k - 1, t), SessionCode)

\* C40: from a live session with current_index i, advance calls alone end
\* the session after exactly len(questions) - i of them: the calls before
\* the last reply "next" and leave it live, the last replies "ended", and
\* every later advance is rejected as not live.
C40_AdvancesUntilEnded ==
    session.state = "live" =>
        LET n == Len(session.questions) - session.current_index IN
        /\ n >= 1
        /\ \A k \in 1..(n - 1) :
              /\ AdvanceReply(session, k, now) = <<200, "next">>
              /\ AfterAdvances(session, k, now).state = "live"
        /\ AdvanceReply(session, n, now) = <<200, "ended">>
        /\ AfterAdvances(session, n, now).state = "ended"
        /\ \A k \in (n + 1)..(n + 2) :
              /\ AdvanceReply(session, k, now) = <<400, "Session is not live">>
              /\ AfterAdvances(session, k, now) = AfterAdvances(session, n, now)

\* An advance has moved a live session to its last question: one more ends it.
C40_Witness ==
    /\ session.state = "live"
    /\ session.current_index = 1
    /\ session.current_index = Len(session.questions) - 1
    /\ session.question_started_at[1] > session.started_at[1]
    /\ AfterAdvances(session, 1, now).state = "ended"

====
